---- MODULE Spec2Model ----
(***************************************************************************)
(* A model of novaexchange.py: the NovaExchange client, its request        *)
(* dispatcher api_query and the endpoint wrappers that delegate to it.     *)
(*                                                                         *)
(* Python strings are TLA+ strings.  Other Python values are tagged        *)
(* records [t |-> type, v |-> payload]; a float is held in tenths.  A dict *)
(* is a function from its keys to tagged values.  HMAC-SHA512 and base64   *)
(* are not computed: a signature is the symbolic term of its key and       *)
(* message, so two signatures are equal exactly when both inputs are       *)
(* (no collisions).                                                        *)
(*                                                                         *)
(* One caller issues calls one after the other on one client; the wall     *)
(* clock advances between any two steps of a call.                         *)
(***************************************************************************)
EXTENDS Integers, Sequences, FiniteSets, TLC

\* ------------------------------------------------------------------ bounds
\* Clock ticks per second: time.time() has sub-second resolution.
TicksPerSec == 2
\* The Unix second at which the model starts.
Epoch == 9
\* How many ticks the clock may advance.
MaxTick == 3
\* How many calls the caller makes on the client.
MaxCalls == 2
\* How many calls the caller makes when the calls are told apart (SpecSeq).
MaxSeqCalls == 3

\* ------------------------------------------------------- Python values
None == [t |-> "none"]
VStr(s) == [t |-> "str", v |-> s]
VInt(n) == [t |-> "int", v |-> n]
\* A float, given in tenths: VFloat(5) is 0.5.
VFloat(n) == [t |-> "float", v |-> n]
\* A bytes object holding base64 text of a digest.
VBytes(b) == [t |-> "bytes", v |-> b]
VTuple(s) == [t |-> "tuple", v |-> s]

EmptyDict == [k \in {} |-> None]
\* d[k] = v on a dict.
DictSet(d, k, v) == [x \in (DOMAIN d) \cup {k} |-> IF x = k THEN v ELSE d[x]]

Min(a, b) == IF a < b THEN a ELSE b

Digit == <<"0", "1", "2", "3", "4", "5", "6", "7", "8", "9">>
RECURSIVE NatStr(_)
NatStr(n) == IF n < 10 THEN Digit[n + 1] ELSE NatStr(n \div 10) \o Digit[(n % 10) + 1]
\* str(n) of an int.
IntStr(n) == IF n < 0 THEN "-" \o NatStr(-n) ELSE NatStr(n)

\* Truncation toward zero of a value in tenths: int(x) of a float.
Trunc(n) == IF n >= 0 THEN n \div 10 ELSE -((-n) \div 10)

\* The integer literals int() parses in this model.
IntLiterals == {"0", "1", "2"}
IntOfLiteral(s) == CASE s = "0" -> 0 [] s = "1" -> 1 [] s = "2" -> 2

\* str(x): None prints as 'None'.
PyStr(x) ==
    CASE x.t = "str" -> x.v
      [] x.t = "int" -> IntStr(x.v)
      [] x.t = "none" -> "None"
      [] x.t = "float" ->
            (IF x.v < 0 THEN "-" ELSE "")
                \o NatStr((IF x.v < 0 THEN -x.v ELSE x.v) \div 10) \o "."
                \o NatStr((IF x.v < 0 THEN -x.v ELSE x.v) % 10)

\* int(x) raises ValueError on a string that is no integer literal and
\* TypeError on None.
IntRaises(x) ==
    CASE x.t = "str" -> IF x.v \in IntLiterals THEN "" ELSE "ValueError"
      [] x.t = "none" -> "TypeError"
      [] OTHER -> ""
PyInt(x) ==
    CASE x.t = "int" -> x.v
      [] x.t = "float" -> Trunc(x.v)
      [] x.t = "str" -> IntOfLiteral(x.v)

\* float(x), in tenths.
FloatRaises(x) ==
    CASE x.t = "str" -> IF x.v \in IntLiterals THEN "" ELSE "ValueError"
      [] x.t = "none" -> "TypeError"
      [] OTHER -> ""
PyFloat(x) ==
    CASE x.t = "int" -> VFloat(x.v * 10)
      [] x.t = "float" -> x
      [] x.t = "str" -> VFloat(IntOfLiteral(x.v) * 10)

VDict(d) == [t |-> "dict", v |-> d]
\* Truthiness of the req argument: None and the empty dict are falsy.
Truthy(x) == x.t = "dict" /\ DOMAIN x.v # {}

\* s[a:b] for 0 <= a <= b.
Slice(s, a, b) == SubSeq(s, a + 1, Min(b, Len(s)))
\* s.split('/')[0]: the text before the first '/', all of s when it has none.
SplitFirst(s) ==
    IF \E i \in 1..Len(s) : SubSeq(s, i, i) = "/"
    THEN LET i == CHOOSE j \in 1..Len(s) :
                     /\ SubSeq(s, j, j) = "/"
                     /\ \A k \in 1..(j - 1) : SubSeq(s, k, k) # "/"
         IN  SubSeq(s, 1, i - 1)
    ELSE s

\* ------------------------------------------------------ module constants
private_set ==
    {"getbalances", "getbalance", "getdeposits", "getwithdrawals",
     "getnewdepositaddress", "getdepositaddress", "myopenorders",
     "myopenorders_market", "cancelorder", "withdraw", "trade", "tradehistory",
     "getdeposithistory", "getwithdrawalhistory", "walletstatus"}

BaseUrl == "https://novaexchange.com/remote/v2/"
Timeout == 60
FormHeaders == [k \in {"content-type"} |-> VStr("application/x-www-form-urlencoded")]

\* ------------------------------------------------------------ the state
VARIABLES
    api_key,      \* self.api_key
    api_secret,   \* self.api_secret
    now,          \* the wall clock, in ticks
    calls,        \* how many calls the caller has made
    pc,           \* where the current call stands
    entry,        \* the method of NovaExchange the caller called
    args,         \* the arguments the caller supplied to it
    method,       \* api_query's method argument
    reqArg,       \* the object the caller passed as req, as the caller sees it
    reqArg0,      \* that object's value when the call began
    aliased,      \* whether api_query's local req is the caller's object
    req,          \* api_query's local req
    url,          \* api_query's local url
    readAt,       \* the clock value time.time() returned to this call, or -1
    sentAt,       \* the clock value when this call's POST went out, or -1
    wire,         \* the HTTP requests this call has issued, in order
    transport,    \* how the HTTP transport answered this call
    r,            \* api_query's local r
    result,       \* how the call ended
    prev          \* the private call before this one

vars == <<api_key, api_secret, now, calls, pc, entry, args, method, reqArg,
          reqArg0, aliased, req, url, readAt, sentAt, wire, transport, r, result,
          prev>>

Unbound == [t |-> "unbound"]
Pending == [kind |-> "pending"]
Return(x) == [kind |-> "return", value |-> x]
Raise(e) == [kind |-> "raise", exc |-> e]
Response(code, body) == [t |-> "response", status |-> code, text |-> body]

StartTick == Epoch * TicksPerSec

\* ------------------------------------------------------------- api_query
\* A slip: a method that is not private is taken to be public.
ClassifyDefaultPublic(m) ==
    IF SplitFirst(m) \in private_set THEN "private" ELSE "market"

\* The branch api_query takes for a method string.
Classify(m) ==
    IF Slice(SplitFirst(m), 0, 6) = "market" THEN "market"
    ELSE IF SplitFirst(m) \in private_set THEN "private"
    ELSE "other"

\* A slip: the nonce counts minutes.
NonceInMinutes(t) == IntStr(t \div (60 * TicksPerSec))

\* str(int(time.time())) for a clock value in ticks.
Nonce(t) == IntStr(t \div TicksPerSec)

PublicUrl(m) == BaseUrl \o m \o "/"
PrivateUrl(m, t) == BaseUrl \o "private/" \o m \o "/" \o "?nonce=" \o Nonce(t)

\* base64.b64encode(hmac.new(secret, msg=u, digestmod=sha512).digest())
Signature(secret, u) == VBytes([alg |-> "hmac-sha512", key |-> secret, msg |-> u])

\* A slip: req.setdefault keeps a field the caller supplied.
SignedReqKeepCaller(d, key, secret, u) ==
    LET d1 == IF "apikey" \in DOMAIN d THEN d ELSE DictSet(d, "apikey", VStr(key))
    IN  IF "signature" \in DOMAIN d1 THEN d1
        ELSE DictSet(d1, "signature", Signature(secret, u))

\* req after req["apikey"] = ... and req["signature"] = ...
SignedReq(d, key, secret, u) ==
    DictSet(DictSet(d, "apikey", VStr(key)), "signature", Signature(secret, u))

\* The fields of the form body requests encodes a dict into.
FormFields(d) == {<<k, d[k]>> : k \in DOMAIN d}

\* A slip: the GET carries the caller's params.
GetRequestWithParams(m) ==
    [verb |-> "GET", url |-> PublicUrl(m),
     data |-> IF Truthy(reqArg) THEN FormFields(reqArg.v) ELSE {},
     headers |-> EmptyDict, timeout |-> Timeout]

\* A slip: the URL is built again, from a second clock read, for the POST.
PostRequestRereadClock(u, d) ==
    [verb |-> "POST", url |-> PrivateUrl(method, now), data |-> FormFields(d),
     headers |-> FormHeaders, timeout |-> Timeout]

GetRequest(m) ==
    [verb |-> "GET", url |-> PublicUrl(m), data |-> {},
     headers |-> EmptyDict, timeout |-> Timeout]
PostRequest(u, d) ==
    [verb |-> "POST", url |-> u, data |-> FormFields(d),
     headers |-> FormHeaders, timeout |-> Timeout]

\* requests.get / requests.post hand one request to the transport.
Send(w, q) == Append(w, q)

\* The private call the caller made last, kept when the next call begins.
PrivateRecord ==
    IF pc = "done" /\ readAt >= 0
    THEN [raw |-> readAt, method |-> method, params |-> reqArg0, url |-> wire[1].url,
          sig |-> req["signature"]]
    ELSE prev

\* A caller calls api_query(m, ra): control is at line 39.
Enter(e, a, m, ra) ==
    /\ pc \in {"idle", "done"}
    /\ calls' = calls + 1
    /\ entry' = e
    /\ args' = a
    /\ method' = m
    /\ reqArg' = ra
    /\ reqArg0' = ra
    /\ aliased' = FALSE
    /\ req' = EmptyDict
    /\ url' = ""
    /\ readAt' = -1
    /\ sentAt' = -1
    /\ wire' = << >>
    /\ transport' = "none"
    /\ r' = Unbound
    /\ result' = Pending
    /\ pc' = "start"
    /\ UNCHANGED <<api_key, api_secret, now>>

Call(e, a, m, ra) == calls < MaxCalls /\ Enter(e, a, m, ra) /\ UNCHANGED prev

\* A wrapper ends without calling api_query.
Finish(e, a, res) ==
    /\ pc \in {"idle", "done"}
    /\ calls < MaxCalls
    /\ calls' = calls + 1
    /\ entry' = e
    /\ args' = a
    /\ method' = ""
    /\ reqArg' = None
    /\ reqArg0' = None
    /\ aliased' = FALSE
    /\ req' = EmptyDict
    /\ url' = ""
    /\ readAt' = -1
    /\ sentAt' = -1
    /\ wire' = << >>
    /\ transport' = "none"
    /\ r' = Unbound
    /\ result' = res
    /\ pc' = "done"
    /\ UNCHANGED <<api_key, api_secret, now, prev>>

\* Lines 39-45: the defaulting of req, the classification, and the GET of a
\* public method, the clock read of a private one, or neither.
Dispatch ==
    /\ pc = "start"
    /\ aliased' = Truthy(reqArg)
    /\ req' = IF Truthy(reqArg) THEN reqArg.v ELSE EmptyDict
    /\ \/ /\ Classify(method) = "market"
          /\ url' = BaseUrl
          /\ wire' = Send(wire, GetRequest(method))
          /\ pc' = "wait"
          /\ UNCHANGED <<readAt, result>>
       \/ /\ Classify(method) = "private"
          /\ readAt' = now
          /\ url' = PrivateUrl(method, now)
          /\ pc' = "sign"
          /\ UNCHANGED <<wire, result>>
       \/ /\ Classify(method) = "other"
          /\ url' = BaseUrl
          /\ result' = Raise("UnboundLocalError")
          /\ pc' = "done"
          /\ UNCHANGED <<readAt, wire>>
    /\ UNCHANGED <<api_key, api_secret, now, calls, entry, args, method, reqArg,
                   reqArg0, sentAt, transport, r, prev>>

\* Lines 46-50: the two stores into req, which is the caller's object when
\* the caller passed a non-empty dict, and the POST.
SignAndPost ==
    /\ pc = "sign"
    /\ req' = SignedReq(req, api_key, api_secret, url)
    /\ reqArg' = IF aliased THEN VDict(req') ELSE reqArg
    /\ wire' = Send(wire, PostRequest(url, req'))
    /\ sentAt' = now
    /\ pc' = "wait"
    /\ UNCHANGED <<api_key, api_secret, now, calls, entry, args, method, reqArg0,
                   aliased, url, readAt, transport, r, result, prev>>

\* What the transport may answer: a body under a 2xx status, a body under a
\* non-2xx status (requests raises on neither), or an exception.
Bodies == {"{\"status\": \"success\"}", ""}
Answers ==
    {<<"ok", Response(200, b)>> : b \in Bodies}
        \cup {<<"http_error", Response(500, "Internal Server Error")>>}
TransportExceptions == {"Timeout", "ConnectionError"}

\* A slip: a failed request is sent once more.
RespondWithRetry ==
    /\ pc = "wait"
    /\ \/ \E a \in Answers :
            /\ transport' = a[1]
            /\ r' = a[2]
            /\ result' = Return(VStr(a[2].text))
            /\ pc' = "done"
            /\ wire' = wire
       \/ \E e \in TransportExceptions :
            IF Len(wire) < 2
            THEN /\ wire' = Append(wire, wire[1])
                 /\ pc' = "wait"
                 /\ UNCHANGED <<transport, r, result>>
            ELSE /\ transport' = e
                 /\ r' = Unbound
                 /\ result' = Raise(e)
                 /\ pc' = "done"
                 /\ wire' = wire
    /\ UNCHANGED <<api_key, api_secret, now, calls, entry, args, method, reqArg,
                   reqArg0, aliased, req, url, readAt, sentAt, prev>>

\* Lines 43/50 and 51: the transport answers the one request of the call;
\* api_query returns r.text, or the transport's exception leaves it.
Respond ==
    /\ pc = "wait"
    /\ \/ \E a \in Answers :
            /\ transport' = a[1]
            /\ r' = a[2]
            /\ result' = Return(VStr(a[2].text))
       \/ \E e \in TransportExceptions :
            /\ transport' = e
            /\ r' = Unbound
            /\ result' = Raise(e)
    /\ pc' = "done"
    /\ UNCHANGED <<api_key, api_secret, now, calls, entry, args, method, reqArg,
                   reqArg0, aliased, req, url, readAt, sentAt, wire, prev>>

\* The wall clock advances.
Tick ==
    /\ now < StartTick + MaxTick
    /\ now' = now + 1
    /\ UNCHANGED <<api_key, api_secret, calls, pc, entry, args, method, reqArg,
                   reqArg0, aliased, req, url, readAt, sentAt, wire, transport, r,
                   result, prev>>

\* ------------------------------------------------- what the caller passes
Methods ==
    {"markets", "market/info/LTC_MEOW", "marketplace",
     "marke", "", "/markets", "Markets", "getbalances2", "private/getbalances",
     "getbalance/BTC", "walletstatus"}
ReqArgs ==
    {None, VDict(EmptyDict), VDict("currency" :> VStr("BTC")),
     VDict(("apikey" :> VStr("evil")) @@ ("signature" :> VStr("forged")))}
MarketArgs == {VStr("LTC_MEOW"), VStr("a/b")}
CurrencyArgs == {VStr("BTC"), VStr(""), VStr("x/y")}
OrderIdArgs == {VInt(258), VStr("7/8")}
OrderTypeArgs == {VStr("BUY"), VStr("SELL"), VStr("BOTH"), VStr("buy"), None}
TradeTypeArgs == {VStr("BUY"), VStr("SELL"), VStr("BOTH")}
TradeBaseArgs ==
    {VInt(0), VInt(1), VInt(2), VFloat(5), VFloat(25), VStr("x")}
AmountArgs == {VInt(8000), VStr("lots")}
PriceArgs == {VFloat(1)}
AddressArgs == {VStr("KF2yLFLcZwYigRDw5Uo9U4B9hEaLqwkVxL")}

\* ------------------------------------------------------------- the callers
\* The caller calls api_query itself.
ApiQuery ==
    \E m \in Methods, ra \in ReqArgs :
        /\ Call("api_query", [method |-> m, req |-> ra], m, ra)

\* The caller calls api_query again and again, the last private call kept.
SeqMethods == {"getbalance/BTC", "walletstatus", "markets", "marke"}
SeqReqArgs == {None, VDict("currency" :> VStr("BTC"))}
ApiQuerySeq ==
    \E m \in SeqMethods, ra \in SeqReqArgs :
        /\ calls < MaxSeqCalls
        /\ Enter("api_query", [method |-> m, req |-> ra], m, ra)
        /\ prev' = PrivateRecord

\* The endpoint wrappers, in the order of the class.
markets ==
    /\ Call("markets", << >>, "markets", None)

market_info ==
    \E market \in MarketArgs :
        /\ Call("market_info", [market |-> market], "market/info/" \o PyStr(market), None)

market_order_history ==
    \E market \in MarketArgs :
        /\ Call("market_order_history", [market |-> market], "market/orderhistory/" \o PyStr(market), None)

market_open_orders ==
    \E market \in MarketArgs, ordertype \in OrderTypeArgs :
        LET a == [market |-> market, ordertype |-> ordertype] IN
        IF PyStr(ordertype) \in {"BUY", "SELL", "BOTH"}
        THEN Call("market_open_orders", a,
                  "market/openorders/" \o PyStr(market) \o "/" \o PyStr(ordertype),
                  None)
        ELSE Finish("market_open_orders", a,
                    Return(VTuple(<<ordertype,
                        VStr("is not a valid ordertype. please use BUY, SELL, or BOTH.")>>)))

get_balances ==
    /\ Call("get_balances", << >>, "getbalances", None)

get_balance ==
    \E currency \in CurrencyArgs :
        /\ Call("get_balance", [currency |-> currency], "getbalance/" \o PyStr(currency), None)

get_deposits ==
    /\ Call("get_deposits", << >>, "getdeposits", None)

get_withdrawals ==
    /\ Call("get_withdrawals", << >>, "getwithdrawals", None)

get_new_deposit_address ==
    \E currency \in CurrencyArgs :
        /\ Call("get_new_deposit_address", [currency |-> currency], "getnewdepositaddress/" \o PyStr(currency), None)

get_deposit_address ==
    \E currency \in CurrencyArgs :
        /\ Call("get_deposit_address", [currency |-> currency], "getdepositaddress/" \o PyStr(currency), None)

my_open_orders ==
    /\ Call("my_open_orders", << >>, "myopenorders", None)

my_open_orders_market ==
    \E market \in MarketArgs :
        /\ Call("my_open_orders_market", [market |-> market], "myopenorders_market/" \o PyStr(market), None)

cancel_order ==
    \E order_id \in OrderIdArgs :
        /\ Call("cancel_order", [order_id |-> order_id], "cancelorder/" \o PyStr(order_id), None)

withdraw ==
    \E currency \in CurrencyArgs, amount \in AmountArgs, address \in AddressArgs :
        LET a == [currency |-> currency, amount |-> amount, address |-> address] IN
        IF FloatRaises(amount) # ""
        THEN Finish("withdraw", a, Raise(FloatRaises(amount)))
        ELSE Call("withdraw", a, "withdraw/" \o PyStr(currency),
                  VDict(("currency" :> VStr(PyStr(currency)))
                        @@ ("amount" :> PyFloat(amount))
                        @@ ("address" :> VStr(PyStr(address)))))

trade ==
    \E market \in MarketArgs, tradetype \in TradeTypeArgs, tradeamount \in AmountArgs,
       tradeprice \in PriceArgs, tradebase \in TradeBaseArgs :
        LET a == [market |-> market, tradetype |-> tradetype,
                  tradeamount |-> tradeamount, tradeprice |-> tradeprice,
                  tradebase |-> tradebase]
        IN
        IF IntRaises(tradebase) # ""
        THEN Finish("trade", a, Raise(IntRaises(tradebase)))
        ELSE IF FloatRaises(tradeamount) # ""
        THEN Finish("trade", a, Raise(FloatRaises(tradeamount)))
        ELSE IF FloatRaises(tradeprice) # ""
        THEN Finish("trade", a, Raise(FloatRaises(tradeprice)))
        ELSE IF ~(PyStr(tradetype) = "BUY" \/ PyStr(tradetype) = "SELL")
        THEN Finish("trade", a,
                    Return(VTuple(<<VStr("trade type"), VStr(PyStr(tradetype)),
                                    VStr("is invalid. (Set as  BUY or SELL)")>>)))
        ELSE IF ~(PyInt(tradebase) = 0 \/ PyInt(tradebase) = 1)
        THEN Finish("trade", a,
                    Return(VTuple(<<VStr("tradebase"), VStr(IntStr(PyInt(tradebase))),
                                    VStr("is invalid (Set as 0 for market currency or 1 for basecurrency as tradeamount)")>>)))
        ELSE Call("trade", a, "trade/" \o PyStr(market),
                  VDict(("tradetype" :> VStr(PyStr(tradetype)))
                        @@ ("tradebase" :> VInt(PyInt(tradebase)))
                        @@ ("tradeprice" :> PyFloat(tradeprice))
                        @@ ("tradeamount" :> PyFloat(tradeamount))))

trade_history ==
    /\ Call("trade_history", << >>, "tradehistory", None)

get_deposit_history ==
    /\ Call("get_deposit_history", << >>, "getdeposithistory", None)

get_withdrawal_history ==
    /\ Call("get_withdrawal_history", << >>, "getwithdrawalhistory", None)

\* A slip: the method is spelt like the wrapper.
wallet_status_misspelt ==
    \E currency \in CurrencyArgs \cup {None} :
        IF currency = None
        THEN Call("wallet_status", [currency |-> currency], "wallet_status", None)
        ELSE Call("wallet_status", [currency |-> currency],
                  "wallet_status/" \o PyStr(currency), None)

wallet_status ==
    \E currency \in CurrencyArgs \cup {None} :
        IF currency = None
        THEN Call("wallet_status", [currency |-> currency], "walletstatus", None)
        ELSE Call("wallet_status", [currency |-> currency],
                  "walletstatus/" \o PyStr(currency), None)

\* ------------------------------------------------------- the specification
\* __init__: None becomes '', anything else its str().
CtorArgs == {<<None, None>>, <<VInt(42), VStr("s3cret")>>}
Normalise(x) == IF x # None THEN PyStr(x) ELSE ""

Init ==
    /\ \E c \in CtorArgs :
          /\ api_key = Normalise(c[1])
          /\ api_secret = Normalise(c[2])
    /\ now = StartTick
    /\ calls = 0
    /\ pc = "idle"
    /\ entry = ""
    /\ args = << >>
    /\ method = ""
    /\ reqArg = None
    /\ reqArg0 = None
    /\ aliased = FALSE
    /\ req = EmptyDict
    /\ url = ""
    /\ readAt = -1
    /\ sentAt = -1
    /\ wire = << >>
    /\ transport = "none"
    /\ r = Unbound
    /\ result = Pending
    /\ prev = None

Next ==
    \/ ApiQuery
    \/ markets
    \/ market_info
    \/ market_order_history
    \/ market_open_orders
    \/ get_balances
    \/ get_balance
    \/ get_deposits
    \/ get_withdrawals
    \/ get_new_deposit_address
    \/ get_deposit_address
    \/ my_open_orders
    \/ my_open_orders_market
    \/ cancel_order
    \/ withdraw
    \/ trade
    \/ trade_history
    \/ get_deposit_history
    \/ get_withdrawal_history
    \/ wallet_status
    \/ Dispatch
    \/ SignAndPost
    \/ Respond
    \/ Tick

Spec == Init /\ [][Next]_vars

\* The caller only calls api_query, and the private calls are told apart.
NextSeq ==
    \/ ApiQuerySeq
    \/ Dispatch
    \/ SignAndPost
    \/ Respond
    \/ Tick

SpecSeq == Init /\ [][NextSeq]_vars

\* ------------------------------------------------------ the properties
\* The vocabulary of the properties, stated on the method string itself.
HasSlash(s) == \E i \in 1..Len(s) : SubSeq(s, i, i) = "/"
StartsWith(s, pre) == Len(s) >= Len(pre) /\ SubSeq(s, 1, Len(pre)) = pre
\* p is the text of m before m's first '/'.
IsFirstSegment(p, m) ==
    /\ ~HasSlash(p)
    /\ \/ m = p
       \/ Len(m) > Len(p) /\ SubSeq(m, 1, Len(p) + 1) = p \o "/"
Segments(m) == {p \in {SubSeq(m, 1, k) : k \in 0..Len(m)} : IsFirstSegment(p, m)}
IsMarketMethod(m) == \E p \in Segments(m) : StartsWith(p, "market")
IsPrivateMethod(m) ==
    \E p \in Segments(m) : p \in private_set /\ ~StartsWith(p, "market")
IsOtherMethod(m) == ~IsMarketMethod(m) /\ ~IsPrivateMethod(m)

\* api_query has been called in the current call and has passed line 44.
Dispatched == pc \in {"sign", "wait"} \/ (pc = "done" /\ url # "")
\* api_query has been called in the current call.
InApiQuery == pc = "start" \/ Dispatched
FieldsNamed(q, k) == {f \in q.data : f[1] = k}

\* C1: a call of api_query with a method whose first path segment starts
\* with 'market' issues one GET to base + method + '/', with no form field
\* at all (no apikey, no signature, none of the caller's params), whatever
\* params the caller passed.
C1_PublicGet ==
    (Dispatched /\ IsMarketMethod(method)) =>
        /\ pc \in {"wait", "done"}
        /\ Len(wire) = 1
        /\ wire[1].verb = "GET"
        /\ wire[1].url = BaseUrl \o method \o "/"
        /\ wire[1].data = {}
C1_Witness ==
    /\ pc = "wait"
    /\ method = "marketplace"
    /\ Truthy(reqArg0)
    /\ wire[1].verb = "GET"

\* C2: a call of api_query with a method whose first path segment is in the
\* private set issues one POST whose form body holds exactly one apikey
\* field, equal to the client's key, and exactly one signature field, to
\* base + 'private/' + method + '/?nonce=' + N, N the decimal whole second
\* of the clock value the call read; also when the caller's params already
\* hold apikey or signature.
C2_PrivatePost ==
    (Dispatched /\ pc # "sign" /\ IsPrivateMethod(method)) =>
        /\ Len(wire) = 1
        /\ wire[1].verb = "POST"
        /\ FieldsNamed(wire[1], "apikey") = {<<"apikey", VStr(api_key)>>}
        /\ Cardinality(FieldsNamed(wire[1], "signature")) = 1
        /\ readAt \in StartTick..now
        /\ wire[1].url = BaseUrl \o "private/" \o method \o "/?nonce="
                             \o ToString(readAt \div TicksPerSec)
C2_Witness ==
    /\ pc = "wait"
    /\ IsPrivateMethod(method)
    /\ reqArg0.t = "dict"
    /\ {"apikey", "signature"} \subseteq DOMAIN reqArg0.v
    /\ wire[1].verb = "POST"

\* C3: in a private call the URL the signature is computed over is the URL
\* the POST goes to, and it carries the one clock value the call read,
\* however far the clock advanced between the read and the POST.
C3_SignedUrlIsSentUrl ==
    (Dispatched /\ pc # "sign" /\ IsPrivateMethod(method)) =>
        /\ \A f \in FieldsNamed(wire[1], "signature") :
              /\ f[2].t = "bytes"
              /\ f[2].v.msg = wire[1].url
              /\ f[2].v.key = api_secret
        /\ FieldsNamed(wire[1], "signature") # {}
        /\ wire[1].url = url
C3_Witness ==
    /\ pc = "wait"
    /\ IsPrivateMethod(method)
    /\ sentAt \div TicksPerSec > readAt \div TicksPerSec
    /\ wire[1].verb = "POST"

\* C4: a call of api_query with a method whose first path segment neither
\* starts with 'market' nor is in the private set issues no HTTP request
\* and ends in an exception raised to the caller, never in a returned value.
C4_OtherRaises ==
    (InApiQuery /\ IsOtherMethod(method)) =>
        /\ wire = << >>
        /\ pc \in {"start", "done"}
        /\ pc = "done" => result.kind = "raise"
C4_Witness ==
    /\ pc = "done"
    /\ url # ""
    /\ method = "getbalances2"
    /\ result = Raise("UnboundLocalError")

\* C5 as claimed: whenever the transport fails (a timeout, a connection
\* error, a response with a non-2xx status) the call ends in an error raised
\* to the caller, never in a returned response body.
C5_TransportFailureRaises ==
    (pc = "done" /\ transport \in TransportExceptions \cup {"http_error"}) =>
        result.kind = "raise"

\* The enumerated arguments as the caller supplied them.
SuppliedIn01(x) == x \in {VInt(0), VInt(1), VFloat(0), VFloat(10)}
InvalidEnumArg ==
    \/ /\ entry = "market_open_orders"
       /\ args.ordertype \notin {VStr("BUY"), VStr("SELL"), VStr("BOTH")}
    \/ /\ entry = "trade"
       /\ \/ args.tradetype \notin {VStr("BUY"), VStr("SELL")}
          \/ ~SuppliedIn01(args.tradebase)

\* C6 as claimed: market_open_orders with an ordertype outside {BUY, SELL,
\* BOTH}, trade with a tradetype outside {BUY, SELL} and trade with a
\* supplied tradebase outside {0, 1} (non-integers included) issue no HTTP
\* request: a request is issued only when every enumerated argument is in
\* its allowed set.
C6_NoRequestOnInvalid == InvalidEnumArg => wire = << >>

\* C7: a call of api_query issues exactly one HTTP request when its method
\* is public or private and never more than one, also after the transport
\* failed, in every call of a sequence of calls.
C7_OneAttempt ==
    /\ Len(wire) <= 1
    /\ (Dispatched /\ pc # "sign" /\ ~IsOtherMethod(method)) => Len(wire) = 1
    /\ (transport \in TransportExceptions) => (pc = "done" /\ Len(wire) = 1)
C7_Witness ==
    /\ calls = 2
    /\ pc = "done"
    /\ transport = "Timeout"
    /\ Len(wire) = 1

\* The decimal number a URL ends with after its last '='.
DigitValue(c) == CHOOSE d \in 0..9 : ToString(d) = c
RECURSIVE DecValue(_)
DecValue(s) ==
    IF s = "" THEN 0
    ELSE DecValue(SubSeq(s, 1, Len(s) - 1)) * 10 + DigitValue(SubSeq(s, Len(s), Len(s)))
QueryNonce(u) ==
    LET i == CHOOSE j \in 1..Len(u) :
                 /\ SubSeq(u, j, j) = "="
                 /\ \A k \in (j + 1)..Len(u) : SubSeq(u, k, k) # "="
    IN  SubSeq(u, i + 1, Len(u))

\* C8: of two consecutive private calls the later never carries the smaller
\* nonce, and when their clock reads are at least one second apart the later
\* nonce is larger and the two URLs and the two signatures differ, also when
\* method and params are the same.
C8_NonceOrder ==
    (prev # None /\ Dispatched /\ pc # "sign" /\ readAt >= 0) =>
        LET n1 == DecValue(QueryNonce(prev.url))
            n2 == DecValue(QueryNonce(wire[1].url))
        IN  /\ n1 <= n2
            /\ (readAt - prev.raw >= TicksPerSec) =>
                  /\ n1 < n2
                  /\ QueryNonce(prev.url) # QueryNonce(wire[1].url)
                  /\ prev.url # wire[1].url
                  /\ \A f \in FieldsNamed(wire[1], "signature") : f[2] # prev.sig
C8_Witness ==
    /\ prev # None
    /\ pc = "wait"
    /\ readAt >= 0
    /\ readAt - prev.raw = TicksPerSec
    /\ prev.method = method
    /\ prev.params = reqArg0

\* C9 as claimed: the client's credentials are always the values normalised
\* at construction, and when a call of api_query has ended the object the
\* caller passed as params holds exactly what it held when the call began
\* (stated for the caller's own calls of api_query).
C9_NoSideEffects ==
    /\ \E c \in CtorArgs : api_key = Normalise(c[1]) /\ api_secret = Normalise(c[2])
    /\ (pc = "done" /\ entry = "api_query") => reqArg = reqArg0

\* C10: a wrapper never hands api_query a method of neither class: the
\* public wrappers only ever reach the GET, the others only the signed
\* POST, whatever the arguments (empty ones and ones holding '/' included).
PublicWrappers == {"markets", "market_info", "market_order_history", "market_open_orders"}
C10_WrappersClassified ==
    (InApiQuery /\ entry # "api_query") =>
        /\ ~IsOtherMethod(method)
        /\ result # Raise("UnboundLocalError")
        /\ entry \in PublicWrappers =>
              /\ IsMarketMethod(method)
              /\ readAt = -1
              /\ \A i \in 1..Len(wire) : wire[i].verb = "GET"
        /\ entry \notin PublicWrappers =>
              /\ IsPrivateMethod(method)
              /\ Dispatched => readAt >= 0
              /\ \A i \in 1..Len(wire) :
                    /\ wire[i].verb = "POST"
                    /\ FieldsNamed(wire[i], "signature") # {}
C10_Witness ==
    /\ entry = "wallet_status"
    /\ args.currency = VStr("x/y")
    /\ pc = "wait"
    /\ wire[1].verb = "POST"

====
